---- MODULE Spec2Model ----
(***************************************************************************)
(* pcfpd: a daemon that loads one policy file at startup and writes it to  *)
(* every TCP client that connects (src/pcfpd.c).                           *)
(*                                                                         *)
(* The model follows main() from getopt() to process exit.  pc is the      *)
(* position of the single thread of control; steps are cut at the system   *)
(* calls.  Signals are delivered between steps, and while main is inside   *)
(* accept() or write() (pc = "in_accept", "in_write").                     *)
(*                                                                         *)
(* log is the sequence of lines written through the stream log_f by        *)
(* log_line(); err is the sequence of lines written to stderr.  Both are   *)
(* what the program writes to the stream; whether descriptors 1 and 2      *)
(* behind stdout and stderr are still open is recorded in std_closed.      *)
(* A log line is its text and, for log_errno, the errno; the peer address  *)
(* of a client line and the timestamp prefix are left out.  log_line is    *)
(* one step: a handler does not run in the middle of it.                   *)
(* wire is what the peer of the current connection has received.           *)
(*                                                                         *)
(* A blocked accept() or write() that a handler installed without          *)
(* SA_RESTART interrupts returns -1 with EINTR (write() may also return    *)
(* the count it had transferred); intr records that interruption.          *)
(* conns, naccept, ncalls, nwrites, delivered, served, nsig, nerr and      *)
(* nwerr                                                                   *)
(* observe the run; the program does not read them.                        *)
(***************************************************************************)
EXTENDS Integers, Sequences, FiniteSets, TLC

\* ---- program constants ------------------------------------------------
DEFAULT_PORT == 843

\* 65536 in the source; scaled down so that files below, at and above the
\* capacity are all enumerated.
MAX_POLICY_LEN == 2

\* unsigned short port: atoi() results are reduced modulo 2^16
USHRT_RANGE == 65536

\* the longest policy file: one byte more than the buffer holds
MaxFileLen == MAX_POLICY_LEN + 1

\* ---- bounds -----------------------------------------------------------
MaxArgs == 2
MaxConns == 2
MaxSignals == 1
MaxAcceptErrs == 1
MaxWriteErrs == 1

\* what getopt() can return for one argv element: the option character and
\* (for -p) the value atoi() gives for its argument: 0, a valid port, and a
\* number that is 0 as an unsigned short.  "?" is an option that is not in
\* "f:p:dl:" or one whose argument is missing.
Options ==
  { [opt |-> "f", val |-> 0], [opt |-> "d", val |-> 0],
    [opt |-> "l", val |-> 0], [opt |-> "?", val |-> 0],
    [opt |-> "p", val |-> 0], [opt |-> "p", val |-> DEFAULT_PORT],
    [opt |-> "p", val |-> USHRT_RANGE] }

SeqsUpTo(S, n) == UNION { [1..k -> S] : k \in 0..n }

ArgLists == SeqsUpTo(Options, MaxArgs)

\* The policy files: one of each length 0..MaxFileLen.  The program never
\* looks at the value of a byte, so every byte of a file is given a different
\* value (its position): a byte that is lost, repeated or moved then shows.
Files == { [i \in 1..n |-> i] : n \in 0..MaxFileLen }

Signals == {"SIGINT", "SIGHUP", "SIGTERM"}
AcceptErrnos == {"EINTR", "EAGAIN", "ECONNABORTED"}

Min(a, b) == IF a < b THEN a ELSE b

VARIABLES
  pc,           \* position of main()
  status,       \* exit status, -1 while the process runs
  argv,         \* the options getopt() has not returned yet
  policy_file,  \* main: policy_file != NULL
  log_file,     \* main: log_file != NULL
  port,         \* main: port
  do_fork,      \* main: do_fork
  log_f,        \* "NULL", "stdout" or "file"
  log,          \* lines written through log_f
  err,          \* lines written to stderr
  sigact,       \* signal dispositions: handler and SA_RESTART
  file,         \* content of the policy file
  f_off,        \* file offset of descriptor f in read_policy
  policy_data,  \* the Policy Buffer
  policy_len,
  listener,     \* "none", "socket", "bound", "listening"
  std_closed,   \* descriptors 0, 1, 2 closed by the daemon child
  running,      \* the Running Flag
  intr,         \* the system call main is blocked in was interrupted
  client,       \* main: client (connection id, 0 when none)
  sent,         \* send_policy: sent
  conns,        \* number of connections accept() has returned
  open,         \* client connections open in the process
  wire,         \* bytes the peer of connection client has received
  served,       \* how send_policy returned for connection client:
                \* "no" (not yet), "full", "zero" or the errno of write()
  naccept,      \* calls of accept() so far
  ncalls,       \* calls of send_policy() so far
  nwrites,      \* calls of write() for the connection being served
  delivered,    \* what the peers of the fully served connections received
  nsig,         \* signals delivered so far
  nerr,         \* accept() failures not caused by a signal so far
  nwerr         \* write() calls that returned 0 or a transport error so far

vars == << pc, status, argv, policy_file, log_file, port, do_fork, log_f, log,
           err, sigact, file, f_off, policy_data, policy_len, listener,
           std_closed, running, intr, client, sent, conns, open, wire,
           served, naccept, ncalls, nwrites, delivered, nsig, nerr,
           nwerr >>

cfgVars == << policy_file, log_file, port, do_fork >>
logVars == << log_f, log, err >>
polVars == << file, f_off, policy_data, policy_len >>
cliVars == << client, sent, conns, open, wire, served, naccept, ncalls,
             nwrites, delivered >>

\* the content of the Policy Buffer: policy_data[0 .. policy_len-1]
Policy == [i \in 1..policy_len |-> policy_data[i - 1]]

IsPrefix(s, t) == Len(s) <= Len(t) /\ SubSeq(t, 1, Len(s)) = s

Init ==
  /\ pc = "getopt"
  /\ status = -1
  /\ argv \in ArgLists
  /\ policy_file = FALSE
  /\ log_file = FALSE
  /\ port = DEFAULT_PORT
  /\ do_fork = 0
  /\ log_f = "NULL"
  /\ log = << >>
  /\ err = << >>
  /\ sigact = [s \in Signals \cup {"SIGPIPE"} |->
                 [handler |-> "SIG_DFL", restart |-> FALSE]]
  /\ file \in Files
  /\ f_off = 0
  /\ policy_data = [i \in 0..(MAX_POLICY_LEN - 1) |-> 0]
  /\ policy_len = 0
  /\ listener = "none"
  /\ std_closed = FALSE
  /\ running = 0
  /\ intr = FALSE
  /\ client = 0
  /\ sent = 0
  /\ conns = 0
  /\ open = {}
  /\ wire = << >>
  /\ served = "no"
  /\ naccept = 0
  /\ ncalls = 0
  /\ nwrites = 0
  /\ delivered = {}
  /\ nsig = 0
  /\ nerr = 0
  /\ nwerr = 0

\* ---- logging ----------------------------------------------------------
\* log_line: one formatted line to log_f
log_line(l, line) == Append(l, line)

\* return from main with the given status
Exit(st) == pc' = "exit" /\ status' = st

\* ---- main: option parsing ---------------------------------------------
\* one iteration of  while ((c = getopt(...)) != -1) switch (c)
Getopt ==
  /\ pc = "getopt"
  /\ UNCHANGED << log_f, log, sigact, polVars, listener, std_closed, running,
                  intr, cliVars, nsig, nerr, nwerr >>
  /\ IF argv = << >>
     THEN /\ pc' = "log_open"
          /\ UNCHANGED << status, argv, cfgVars, err >>
     ELSE LET a == Head(argv) IN
          /\ argv' = Tail(argv)
          /\ CASE a.opt = "p" ->
                    /\ port' = a.val % USHRT_RANGE
                    /\ IF port' = 0
                       THEN Exit(1) /\ err' = Append(err, "Invalid port")
                       ELSE UNCHANGED << pc, status, err >>
                    /\ UNCHANGED << policy_file, log_file, do_fork >>
               [] a.opt = "f" ->
                    /\ policy_file' = TRUE
                    /\ UNCHANGED << pc, status, err, log_file, port, do_fork >>
               [] a.opt = "l" ->
                    \* no break: falls through into case 'd'
                    /\ log_file' = TRUE
                    /\ do_fork' = 1
                    /\ UNCHANGED << pc, status, err, policy_file, port >>
               [] a.opt = "d" ->
                    /\ do_fork' = 1
                    /\ UNCHANGED << pc, status, err, policy_file, log_file,
                                    port >>
               [] OTHER ->
                    /\ Exit(1)
                    /\ err' = Append(err, "Usage")
                    /\ UNCHANGED cfgVars

\* log_open(log_file): fopen may fail, then stdout is used
LogOpen ==
  /\ pc = "log_open"
  /\ IF log_f # "NULL"
     THEN /\ log' = log_line(log, << "tried to open log again", "" >>)
          /\ UNCHANGED << log_f, err >>
     ELSE \E fopen_ok \in BOOLEAN :
            /\ log_f' = IF log_file /\ fopen_ok THEN "file" ELSE "stdout"
            /\ err' = IF log_file /\ ~fopen_ok
                      THEN Append(err, "Could not open log file")
                      ELSE err
            /\ (~log_file => fopen_ok)
            /\ log' = log_line(log, << "pcfpd started", "" >>)
  /\ pc' = "sig_handler"
  /\ UNCHANGED << status, argv, cfgVars, sigact, polVars, listener,
                  std_closed, running, intr, cliVars, nsig, nerr, nwerr >>

\* (mutant) SA_RESTART is set instead of cleared
sig_handler_Restart(act, sig, fn) ==
  [act EXCEPT ![sig] = [handler |-> fn, restart |-> TRUE]]

\* sig_handler(sig, fn): set the handler and clear SA_RESTART
sig_handler(act, sig, fn) ==
  [act EXCEPT ![sig] = [handler |-> fn, restart |-> FALSE]]

\* (mutant) SIGPIPE keeps its default action
InstallHandlers_NoSigpipe ==
  /\ pc = "sig_handler"
  /\ sigact' = sig_handler(sig_handler(sig_handler(sigact,
                  "SIGINT", "sigint_handler"),
                  "SIGHUP", "sighup_handler"),
                  "SIGTERM", "sigterm_handler")
  /\ pc' = "check_policy_file"
  /\ UNCHANGED << status, argv, cfgVars, logVars, polVars, listener,
                  std_closed, running, intr, cliVars, nsig, nerr, nwerr >>

\* the four sig_handler() calls of main
InstallHandlers ==
  /\ pc = "sig_handler"
  /\ sigact' = sig_handler(sig_handler(sig_handler(sig_handler(sigact,
                  "SIGINT", "sigint_handler"),
                  "SIGHUP", "sighup_handler"),
                  "SIGTERM", "sigterm_handler"),
                  "SIGPIPE", "SIG_IGN")
  /\ pc' = "check_policy_file"
  /\ UNCHANGED << status, argv, cfgVars, logVars, polVars, listener,
                  std_closed, running, intr, cliVars, nsig, nerr, nwerr >>

\* (mutant) the missing -f message is printed without usage()
CheckPolicyFile_NoUsage ==
  /\ pc = "check_policy_file"
  /\ IF ~policy_file
     THEN /\ Exit(1)
          /\ err' = Append(err, "Missing required policy file argument -f")
     ELSE /\ pc' = "open"
          /\ UNCHANGED << status, err >>
  /\ UNCHANGED << argv, cfgVars, log_f, log, sigact, polVars, listener,
                  std_closed, running, intr, cliVars, nsig, nerr, nwerr >>

\* if (!policy_file) { ...; usage; return 1; }
CheckPolicyFile ==
  /\ pc = "check_policy_file"
  /\ IF ~policy_file
     THEN /\ Exit(1)
          /\ err' = Append(Append(err, "Missing required policy file argument -f"),
                           "Usage")
     ELSE /\ pc' = "open"
          /\ UNCHANGED << status, err >>
  /\ UNCHANGED << argv, cfgVars, log_f, log, sigact, polVars, listener,
                  std_closed, running, intr, cliVars, nsig, nerr, nwerr >>

\* ---- read_policy ------------------------------------------------------
\* (mutant) main ignores the result of read_policy()
ReadPolicyFailed_Ignored(what) ==
  /\ pc' = "create_listener"
  /\ err' = Append(err, what)
  /\ UNCHANGED status

\* the result main() gives to a failed read_policy()
ReadPolicyFailed(what) ==
  /\ Exit(1)
  /\ err' = Append(Append(err, what), "Failed to read policy file")

\* open(file, O_RDONLY), then policy_len = 0
OpenPolicy ==
  /\ pc = "open"
  /\ \/ /\ ReadPolicyFailed("open")
        /\ UNCHANGED << policy_len, f_off >>
     \/ /\ policy_len' = 0
        /\ f_off' = 0
        /\ pc' = "read"
        /\ UNCHANGED << status, err >>
  /\ UNCHANGED << argv, cfgVars, log_f, log, sigact, file, policy_data,
                  listener, std_closed, running, intr, cliVars, nsig, nerr, nwerr >>

\* (mutant) read() is given policy_data instead of policy_data + policy_len
StoreRead_NoOffset(sz) ==
  [i \in 0..(MAX_POLICY_LEN - 1) |->
     IF i < sz THEN file[f_off + i + 1] ELSE policy_data[i]]

\* the bytes read(f, policy_data + policy_len, ...) stores when it returns
\* sz: a store past the end of the array shows as a cell outside
\* 0..MAX_POLICY_LEN-1
StoreRead(sz) ==
  [i \in DOMAIN policy_data \cup (policy_len..(policy_len + sz - 1)) |->
     IF policy_len <= i /\ i < policy_len + sz
     THEN file[f_off + (i - policy_len) + 1]
     ELSE policy_data[i]]

\* (mutant) read() is always asked for the whole capacity
ReadWant_Const == MAX_POLICY_LEN

\* the length given to read(): 65536 - policy_len
ReadWant == MAX_POLICY_LEN - policy_len

\* one iteration of  while (policy_len < MAX_POLICY_LEN)  with its read():
\* sz < 0 is a read error, sz = 0 is end of file, sz > 0 is a (partial) read
ReadPolicy ==
  /\ pc = "read"
  /\ policy_len < MAX_POLICY_LEN
  /\ LET left == Len(file) - f_off
     IN  \E sz \in -1..Min(ReadWant, left) :
           /\ (sz = 0) => (left = 0)
           /\ IF sz < 0
              THEN /\ ReadPolicyFailed("read")
                   /\ UNCHANGED << policy_data, policy_len, f_off >>
              ELSE IF sz = 0
              THEN /\ pc' = "create_listener"
                   /\ UNCHANGED << status, err, policy_data, policy_len,
                                   f_off >>
              ELSE /\ policy_data' = StoreRead(sz)
                   /\ policy_len' = policy_len + sz
                   /\ f_off' = f_off + sz
                   /\ UNCHANGED << pc, status, err >>
  /\ UNCHANGED << argv, cfgVars, log_f, log, sigact, file, listener,
                  std_closed, running, intr, cliVars, nsig, nerr, nwerr >>

\* the loop ends because the buffer is full: return 0
ReadPolicyFull ==
  /\ pc = "read"
  /\ ~(policy_len < MAX_POLICY_LEN)
  /\ pc' = "create_listener"
  /\ UNCHANGED << status, argv, cfgVars, logVars, sigact, polVars, listener,
                  std_closed, running, intr, cliVars, nsig, nerr, nwerr >>

\* ---- create_listener --------------------------------------------------
\* socket, bind, listen; r names the call that fails.  (A failing setsockopt
\* only prints a warning and changes nothing else; it is left out.)
CreateListener ==
  /\ pc = "create_listener"
  /\ \E r \in {"ok", "socket", "bind", "listen"} :
       /\ listener' = CASE r = "socket" -> "none"
                        [] r = "bind"   -> "socket"
                        [] r = "listen" -> "bound"
                        [] OTHER        -> "listening"
       /\ IF r = "ok"
          THEN /\ pc' = "fork"
               /\ UNCHANGED << status, err >>
          ELSE /\ Exit(1)
               /\ err' = Append(Append(err, r), "Failed to create listener")
  /\ UNCHANGED << argv, cfgVars, log_f, log, sigact, polVars, std_closed,
                  running, intr, cliVars, nsig, nerr, nwerr >>

\* ---- daemonization ----------------------------------------------------
\* (mutant) the child goes on without closing descriptors 0, 1 and 2
Fork_NoClose ==
  /\ pc = "fork"
  /\ IF do_fork = 0
     THEN /\ pc' = "for_init"
          /\ UNCHANGED << status, err, std_closed >>
     ELSE \/ /\ Exit(1)
             /\ err' = Append(err, "fork")
             /\ UNCHANGED std_closed
          \/ /\ Exit(0)
             /\ err' = Append(err, "Forked with PID")
             /\ UNCHANGED std_closed
          \/ /\ pc' = "for_init"
             /\ UNCHANGED << status, err, std_closed >>
  /\ UNCHANGED << argv, cfgVars, log_f, log, sigact, polVars, listener,
                  running, intr, cliVars, nsig, nerr, nwerr >>

\* if (do_fork) { fork(); ... }.  After a successful fork the model follows
\* either the parent (which returns 0) or the child.
Fork ==
  /\ pc = "fork"
  /\ IF do_fork = 0
     THEN /\ pc' = "for_init"
          /\ UNCHANGED << status, err, std_closed >>
     ELSE \/ /\ Exit(1)
             /\ err' = Append(err, "fork")
             /\ UNCHANGED std_closed
          \/ /\ Exit(0)
             /\ err' = Append(err, "Forked with PID")
             /\ UNCHANGED std_closed
          \/ /\ std_closed' = TRUE
             /\ pc' = "for_init"
             /\ UNCHANGED << status, err >>
  /\ UNCHANGED << argv, cfgVars, log_f, log, sigact, polVars, listener,
                  running, intr, cliVars, nsig, nerr, nwerr >>

\* ---- the accept loop --------------------------------------------------
\* for (running = 1; ...
ForInit ==
  /\ pc = "for_init"
  /\ running' = 1
  /\ pc' = "for_cond"
  /\ UNCHANGED << status, argv, cfgVars, logVars, sigact, polVars, listener,
                  std_closed, intr, cliVars, nsig, nerr, nwerr >>

\* for (...; running; ) : leaving the loop is the end of main
ForCond ==
  /\ pc = "for_cond"
  /\ IF running # 0
     THEN pc' = "accept" /\ UNCHANGED status
     ELSE Exit(0)
  /\ UNCHANGED << argv, cfgVars, logVars, sigact, polVars, listener,
                  std_closed, running, intr, cliVars, nsig, nerr, nwerr >>

\* main enters accept() and blocks
CallAccept ==
  /\ pc = "accept"
  /\ pc' = "in_accept"
  /\ intr' = FALSE
  /\ naccept' = naccept + 1
  /\ UNCHANGED << status, argv, cfgVars, logVars, sigact, polVars, listener,
                  std_closed, running, client, sent, conns, open, wire,
                  served, ncalls, nwrites, delivered, nsig, nerr, nwerr >>

\* accept() returns a connection
AcceptOk ==
  /\ pc = "in_accept"
  /\ ~intr
  /\ conns < MaxConns
  /\ conns' = conns + 1
  /\ client' = conns'
  /\ open' = open \cup {client'}
  /\ wire' = << >>
  /\ served' = "no"
  /\ pc' = "log_client"
  /\ UNCHANGED << status, argv, cfgVars, logVars, sigact, polVars, listener,
                  std_closed, running, intr, sent, naccept, ncalls, nwrites,
                  delivered, nsig, nerr, nwerr >>

\* log_errno(msg, e)
log_errno(l, msg, e) == log_line(l, << msg, e >>)

\* (mutant) every accept() error is retried
AcceptRetry_Always(e) == e \in AcceptErrnos

\* if (e == EINTR || e == EAGAIN) continue; break;
AcceptRetry(e) == e = "EINTR" \/ e = "EAGAIN"

\* accept() fails with errno e; an interrupted accept() fails with EINTR
AcceptFail(e) ==
  /\ pc = "in_accept"
  /\ (e = "EINTR") = intr
  /\ (e # "EINTR") => nerr < MaxAcceptErrs
  /\ nerr' = IF e = "EINTR" THEN nerr ELSE nerr + 1
  /\ intr' = FALSE
  /\ log' = log_errno(log, "accept", e)
  /\ IF AcceptRetry(e)
     THEN pc' = "for_cond" /\ UNCHANGED status
     ELSE Exit(0)
  /\ UNCHANGED << argv, cfgVars, log_f, err, sigact, polVars, listener,
                  std_closed, running, cliVars, nsig, nwerr >>

\* (mutant) the peer is not logged before send_policy is entered
LogClient_Silent ==
  /\ pc = "log_client"
  /\ sent' = 0
  /\ ncalls' = ncalls + 1
  /\ nwrites' = 0
  /\ pc' = "send_policy"
  /\ UNCHANGED << status, argv, cfgVars, logVars, sigact, polVars,
                  listener, std_closed, running, intr, client, conns,
                  open, wire, served, naccept, delivered, nsig, nerr,
                  nwerr >>

\* log_client(&sa), then send_policy is entered with sent = 0
LogClient ==
  /\ pc = "log_client"
  /\ log' = IF log_f = "NULL" THEN log ELSE log_line(log, << "client", "" >>)
  /\ sent' = 0
  /\ ncalls' = ncalls + 1
  /\ nwrites' = 0
  /\ pc' = "send_policy"
  /\ UNCHANGED << status, argv, cfgVars, log_f, err, sigact, polVars,
                  listener, std_closed, running, intr, client, conns,
                  open, wire, served, naccept, delivered, nsig, nerr,
                  nwerr >>

\* while (sent < policy_len) : either write() is called or send_policy returns
SendPolicyLoop ==
  /\ pc = "send_policy"
  /\ IF sent < policy_len
     THEN /\ pc' = "in_write"
          /\ intr' = FALSE
          /\ nwrites' = nwrites + 1
          /\ UNCHANGED served
     ELSE /\ pc' = "close"
          /\ served' = "full"
          /\ UNCHANGED << intr, nwrites >>
  /\ UNCHANGED << status, argv, cfgVars, logVars, sigact, polVars, listener,
                  std_closed, running, client, sent, conns, open, wire,
                  naccept, ncalls, delivered, nsig, nerr, nwerr >>

WriteErrnos == {"EINTR", "EPIPE"}

\* (mutant) a partial write is taken for a complete one: sent = policy_len
WriteSome_NoResume(sz) ==
  /\ pc = "in_write"
  /\ sz \in 1..(policy_len - sent)
  /\ wire' = wire \o SubSeq(Policy, sent + 1, sent + sz)
  /\ sent' = policy_len
  /\ intr' = FALSE
  /\ pc' = "send_policy"
  /\ UNCHANGED << status, argv, cfgVars, logVars, sigact, polVars, listener,
                  std_closed, running, client, conns, open, served,
                  naccept, ncalls, nwrites, delivered, nsig, nerr, nwerr >>

\* write(client, policy_data + sent, policy_len - sent) returns sz > 0
WriteSome(sz) ==
  /\ pc = "in_write"
  /\ sz \in 1..(policy_len - sent)
  /\ wire' = wire \o SubSeq(Policy, sent + 1, sent + sz)
  /\ sent' = sent + sz
  /\ intr' = FALSE
  /\ pc' = "send_policy"
  /\ UNCHANGED << status, argv, cfgVars, logVars, sigact, polVars, listener,
                  std_closed, running, client, conns, open, served,
                  naccept, ncalls, nwrites, delivered, nsig, nerr, nwerr >>

\* (mutant) a zero-byte write is reported and the loop goes on
WriteZero_Retry ==
  /\ pc = "in_write"
  /\ nwerr < MaxWriteErrs
  /\ nwerr' = nwerr + 1
  /\ err' = Append(err, "Wrote 0 bytes?")
  /\ intr' = FALSE
  /\ pc' = "send_policy"
  /\ UNCHANGED << status, argv, cfgVars, log_f, log, sigact, polVars,
                  listener, std_closed, running, cliVars, nsig, nerr >>

\* write() returns 0: "Wrote 0 bytes?" and return
WriteZero ==
  /\ pc = "in_write"
  /\ nwerr < MaxWriteErrs
  /\ nwerr' = nwerr + 1
  /\ err' = Append(err, "Wrote 0 bytes?")
  /\ served' = "zero"
  /\ intr' = FALSE
  /\ pc' = "close"
  /\ UNCHANGED << status, argv, cfgVars, log_f, log, sigact, polVars,
                  listener, std_closed, running, client, sent, conns,
                  open, wire, naccept, ncalls, nwrites, delivered, nsig, nerr >>

\* (mutant) a failed write leaves the loop iteration without close(client)
WriteFail_NoClose(e) ==
  /\ pc = "in_write"
  /\ IF e = "EINTR" THEN intr ELSE nwerr < MaxWriteErrs
  /\ nwerr' = IF e = "EINTR" THEN nwerr ELSE nwerr + 1
  /\ intr' = FALSE
  /\ pc' = "for_cond"
  /\ err' = Append(err, "write")
  /\ served' = e
  /\ UNCHANGED << status, argv, cfgVars, log_f, log, sigact, polVars,
                  listener, std_closed, running, client, sent, conns,
                  open, wire, naccept, ncalls, nwrites, delivered, nsig, nerr >>

\* write() fails with errno e: perror and return.  EINTR needs a signal to
\* have interrupted the call; EPIPE raises SIGPIPE first, which ends the
\* process unless it is ignored.
WriteFail(e) ==
  /\ pc = "in_write"
  /\ IF e = "EINTR" THEN intr ELSE nwerr < MaxWriteErrs
  /\ nwerr' = IF e = "EINTR" THEN nwerr ELSE nwerr + 1
  /\ intr' = FALSE
  /\ IF e = "EPIPE" /\ sigact["SIGPIPE"].handler = "SIG_DFL"
     THEN /\ pc' = "killed"
          /\ UNCHANGED << err, served >>
     ELSE /\ pc' = "close"
          /\ err' = Append(err, "write")
          /\ served' = e
  /\ UNCHANGED << status, argv, cfgVars, log_f, log, sigact, polVars,
                  listener, std_closed, running, client, sent, conns,
                  open, wire, naccept, ncalls, nwrites, delivered, nsig, nerr >>

\* close(client): the peer sees the end of the stream
CloseClient ==
  /\ pc = "close"
  /\ open' = open \ {client}
  /\ delivered' = IF served = "full" THEN delivered \cup {wire} ELSE delivered
  /\ nwrites' = 0
  /\ pc' = "for_cond"
  /\ UNCHANGED << status, argv, cfgVars, logVars, sigact, polVars, listener,
                  std_closed, running, intr, client, sent, conns, wire,
                  served, naccept, ncalls, nsig, nerr, nwerr >>

\* ---- signals ----------------------------------------------------------
\* the handler bodies: the log line, the new value of running, and the
\* Policy Buffer, which no handler touches
sigint_handler ==
  /\ log' = log_line(log, << "caught SIGINT. stopping...", "" >>)
  /\ running' = 0
  /\ UNCHANGED polVars

\* (mutant) SIGHUP drops the loaded policy, as a reload would start by doing
sighup_handler_Reload ==
  /\ log' = log_line(log, << "caught SIGHUP. ignoring...", "" >>)
  /\ policy_len' = 0
  /\ UNCHANGED << running, file, f_off, policy_data >>

sighup_handler ==
  /\ log' = log_line(log, << "caught SIGHUP. ignoring...", "" >>)
  /\ UNCHANGED << running, polVars >>

sigterm_handler ==
  /\ log' = log_line(log, << "caught SIGTERM. stopping...", "" >>)
  /\ running' = 0
  /\ UNCHANGED polVars

Alive == pc \notin {"exit", "killed"}
Blocked == pc \in {"in_accept", "in_write"}

\* a signal arrives before its handler is installed: the default action
\* ends the process
SignalDefault(sig) ==
  /\ Alive
  /\ nsig < MaxSignals
  /\ sigact[sig].handler = "SIG_DFL"
  /\ nsig' = nsig + 1
  /\ pc' = "killed"
  /\ UNCHANGED << status, argv, cfgVars, logVars, sigact, polVars, listener,
                  std_closed, running, intr, cliVars, nerr, nwerr >>

\* a signal arrives and its handler runs; a system call main is blocked in
\* is interrupted unless the handler was installed with SA_RESTART
Signal(sig) ==
  /\ Alive
  /\ nsig < MaxSignals
  /\ sigact[sig].handler # "SIG_DFL"
  /\ nsig' = nsig + 1
  /\ CASE sigact[sig].handler = "sigint_handler"  -> sigint_handler
       [] sigact[sig].handler = "sighup_handler"  -> sighup_handler
       [] sigact[sig].handler = "sigterm_handler" -> sigterm_handler
       [] OTHER -> UNCHANGED << log, running, polVars >>
  /\ intr' = (intr \/ (Blocked /\ ~sigact[sig].restart))
  /\ UNCHANGED << pc, status, argv, cfgVars, log_f, err, sigact, listener,
                  std_closed, cliVars, nerr, nwerr >>

Next ==
  \/ Getopt
  \/ LogOpen
  \/ InstallHandlers
  \/ CheckPolicyFile
  \/ OpenPolicy
  \/ ReadPolicy
  \/ ReadPolicyFull
  \/ CreateListener
  \/ Fork
  \/ ForInit
  \/ ForCond
  \/ CallAccept
  \/ AcceptOk
  \/ \E e \in AcceptErrnos : AcceptFail(e)
  \/ LogClient
  \/ SendPolicyLoop
  \/ \E sz \in 1..MAX_POLICY_LEN : WriteSome(sz)
  \/ WriteZero
  \/ \E e \in WriteErrnos : WriteFail(e)
  \/ CloseClient
  \/ \E sig \in Signals : SignalDefault(sig)
  \/ \E sig \in Signals : Signal(sig)

Spec == Init /\ [][Next]_vars

\* The steps that need nothing but the processor: main's own statements, the
\* return of a write() in progress (with a count, 0 or an error), and the
\* return of an accept() that a signal interrupted.  An accept() that no
\* signal interrupted returns only when a peer connects or the call fails,
\* which nothing obliges to happen; nor is any signal obliged to arrive.
MainStep ==
  \/ Getopt
  \/ LogOpen
  \/ InstallHandlers
  \/ CheckPolicyFile
  \/ OpenPolicy
  \/ ReadPolicy
  \/ ReadPolicyFull
  \/ CreateListener
  \/ Fork
  \/ ForInit
  \/ ForCond
  \/ CallAccept
  \/ AcceptFail("EINTR")
  \/ LogClient
  \/ SendPolicyLoop
  \/ \E sz \in 1..MAX_POLICY_LEN : WriteSome(sz)
  \/ WriteZero
  \/ \E e \in WriteErrnos : WriteFail(e)
  \/ CloseClient

\* the program under a scheduler that keeps running the process
FairSpec == Spec /\ WF_vars(MainStep)

\* ======================================================================
\* Properties
\* ======================================================================
Last(s) == s[Len(s)]

\* the positions of main inside the accept loop
ServePcs == {"for_init", "for_cond", "accept", "in_accept", "log_client",
             "send_policy", "in_write", "close"}

\* main has returned from read_policy() with 0 and has not exited
Loaded == pc \in {"create_listener", "fork"} \cup ServePcs

\* the first min(n, MAX_POLICY_LEN) bytes of the file
FilePrefix == SubSeq(file, 1, Min(Len(file), MAX_POLICY_LEN))

\* C1: when read_policy returns 0, whatever the sizes of the partial reads
\* were, policy_len = min(n, MAX_POLICY_LEN) and the Policy Buffer holds
\* exactly that many first bytes of the file, in order; a longer file is
\* truncated and the load still succeeds.  While loading, the buffer holds
\* the bytes read so far.
C1_LoadExact ==
  /\ pc = "read" => /\ policy_len = f_off
                    /\ policy_len <= MAX_POLICY_LEN
                    /\ Policy = SubSeq(file, 1, policy_len)
  /\ pc = "create_listener" =>
        /\ policy_len = Min(Len(file), MAX_POLICY_LEN)
        /\ Policy = FilePrefix

\* a file longer than the buffer has been loaded
C1_Witness ==
  /\ pc = "create_listener"
  /\ Len(file) > MAX_POLICY_LEN
  /\ policy_len = MAX_POLICY_LEN

\* C2: what a client has received is always a prefix of the Policy Buffer;
\* inside send_policy the next byte to write is the first one the client has
\* not received; send_policy returns from its loop test only when the client
\* has the whole buffer; after close(client) the connection is closed.
C2_SendPrefix ==
  /\ IsPrefix(wire, Policy)
  /\ pc \in {"send_policy", "in_write"} => sent = Len(wire)
  /\ pc = "in_write" => sent < policy_len
  /\ served = "full" => wire = Policy
  /\ (pc = "close" /\ served \notin {"zero"} \cup WriteErrnos) => served = "full"
  /\ pc \in {"for_cond", "accept", "in_accept"} => client \notin open

\* a partial write has happened and send_policy is writing the rest
C2_Witness ==
  /\ pc = "in_write"
  /\ 0 < sent
  /\ sent < policy_len

\* C3: after the load nothing writes policy_data or policy_len, and all the
\* connections that were served in full received the same content.
C3_PolicyImmutable ==
  /\ [](Cardinality(delivered) <= 1)
  /\ [][Loaded => UNCHANGED << policy_data, policy_len >>]_vars

\* two connections have been served in full, with a SIGHUP in between
C3_Witness ==
  /\ conns = 2
  /\ pc = "close"
  /\ served = "full"
  /\ delivered = {wire}
  /\ wire # << >>
  /\ \E i, j, k \in 1..Len(log) :
        /\ i < j /\ j < k
        /\ log[i] = << "client", "" >>
        /\ log[j] = << "caught SIGHUP. ignoring...", "" >>
        /\ log[k] = << "client", "" >>

\* ---- signals and accept() --------------------------------------------
TermSignals == {"SIGINT", "SIGTERM"}

CaughtLine(sig) ==
  CASE sig = "SIGINT"  -> << "caught SIGINT. stopping...", "" >>
    [] sig = "SIGTERM" -> << "caught SIGTERM. stopping...", "" >>
    [] sig = "SIGHUP"  -> << "caught SIGHUP. ignoring...", "" >>

\* the number of "caught ..." lines in the log
CaughtCount == Cardinality({i \in 1..Len(log) :
                              \E sig \in Signals : log[i] = CaughtLine(sig)})

\* the flag is false and main is in the interrupted accept() or at the loop test
Stopping ==
  /\ running = 0
  /\ (pc = "in_accept" /\ intr) \/ pc = "for_cond"

\* C4: SIGINT or SIGTERM delivered while main is blocked in accept() logs
\* its "caught ... stopping" line once and interrupts accept(); accept()
\* then fails with EINTR (which is logged), the loop test finds running = 0
\* and main returns, with no further accept() call and no new connection.
\* Every delivered signal has exactly one "caught" line in the log.
C4_TermInAccept ==
  /\ [](pc # "killed" => CaughtCount = nsig)
  /\ [][\A sig \in TermSignals :
          (pc = "in_accept" /\ Signal(sig)) =>
             (log' = Append(log, CaughtLine(sig)) /\ Stopping')]_vars
  /\ [][Stopping =>
          /\ conns' = conns
          /\ naccept' = naccept
          /\ running' = 0
          /\ Stopping' \/ (pc' = "exit" /\ status' = 0)
          /\ (pc = "in_accept" /\ pc' # "in_accept") =>
                (pc' = "for_cond" /\ log' = Append(log, << "accept", "EINTR" >>))
       ]_vars

\* main has returned after one accept() call that a termination signal
\* interrupted
C4_Witness ==
  /\ pc = "exit"
  /\ status = 0
  /\ naccept = 1
  /\ Len(log) >= 2
  /\ Last(log) = << "accept", "EINTR" >>
  /\ \E sig \in TermSignals : log[Len(log) - 1] = CaughtLine(sig)

\* no termination signal has been delivered to a handler
OnlyHup == \A i \in 1..Len(log) : \A sig \in TermSignals : log[i] # CaughtLine(sig)

\* C5 (as claimed): SIGHUP has no effect but its log line: with no other
\* signal the Running Flag stays true in the loop, and a connection whose
\* writes met no transport failure is closed only after the whole Policy
\* Buffer was received.
C5_HupOnlyLogs ==
  OnlyHup =>
    /\ pc \in (ServePcs \ {"for_init"}) => running = 1
    /\ (pc = "close" /\ served \notin {"zero", "EPIPE"}) => wire = Policy

\* C6: a failed accept() is logged with its errno; after EINTR or EAGAIN
\* main is at the loop test, after any other errno main has returned;
\* accept() is called only from the loop test with running true; nothing
\* happens after main has returned.
C6_AcceptFailure ==
  [][/\ (pc = "in_accept" /\ pc' \notin {"in_accept", "log_client"}) =>
          \E e \in AcceptErrnos :
            /\ log' = Append(log, << "accept", e >>)
            /\ IF e \in {"EINTR", "EAGAIN"}
               THEN pc' = "for_cond" /\ status' = status
               ELSE pc' = "exit"
            /\ conns' = conns
     /\ (pc' = "accept" /\ pc # "accept") => (pc = "for_cond" /\ running # 0)
     /\ (pc' = "in_accept" /\ pc # "in_accept") => pc = "accept"
     /\ pc # "exit"
    ]_vars

\* an interrupted accept() was retried and a later accept() failed fatally
C6_Witness ==
  /\ pc = "exit"
  /\ Len(log) >= 2
  /\ Last(log) = << "accept", "ECONNABORTED" >>
  /\ \E i \in 1..(Len(log) - 1) : log[i] = << "accept", "EINTR" >>

HandlerPcs == {"log_client", "send_policy", "in_write", "close"}

\* C7: between accept() returning a connection and close(client) exactly
\* that connection is open and send_policy has been called once for it;
\* everywhere else (when accept() is called, when main has left the loop)
\* no client connection is open.
C7_OneHandlerThenClose ==
  /\ Cardinality(open) <= 1
  /\ pc \in HandlerPcs => (open = {client} /\ client = conns)
  /\ pc \notin HandlerPcs => open = {}
  /\ ncalls = IF pc = "log_client" THEN conns - 1 ELSE conns

\* two connections have been handled and closed, the second after an
\* aborted write
C7_Witness ==
  /\ pc = "for_cond"
  /\ conns = 2
  /\ ncalls = 2
  /\ served \in {"zero", "EPIPE"}
  /\ open = {}

InitFailures == {"Failed to read policy file", "Failed to create listener"}

\* C8: a failed initialisation ends main with status 1 and accept() is never
\* called; after a failed policy load no listener socket exists; whenever
\* accept() has been called the listener is listening and the Policy Buffer
\* holds the complete (possibly truncated) file.
C8_InitFailure ==
  /\ status = 1 => (pc = "exit" /\ naccept = 0 /\ conns = 0)
  /\ (err # << >> /\ Last(err) \in InitFailures) => (pc = "exit" /\ status = 1)
  /\ (err # << >> /\ Last(err) = "Failed to read policy file") => listener = "none"
  /\ (naccept > 0 \/ pc \in ServePcs) =>
        /\ listener = "listening"
        /\ policy_len = Min(Len(file), MAX_POLICY_LEN)
        /\ Policy = FilePrefix

\* a read error after part of the file was loaded
C8_Witness ==
  /\ pc = "exit"
  /\ status = 1
  /\ err # << >>
  /\ Last(err) = "Failed to read policy file"
  /\ f_off > 0
  /\ listener = "none"

\* C9: a write() that returns 0 or fails sends main to close(client) with
\* the Running Flag, the open connection and the bytes on the wire
\* unchanged; close(client) then closes the connection and main is back at
\* the loop test with the flag unchanged.
C9_WriteFailContained ==
  [][/\ (pc = "in_write" /\ pc' \notin {"in_write", "send_policy"}) =>
          /\ pc' = "close"
          /\ running' = running
          /\ open' = open
          /\ wire' = wire
          /\ served' \in {"zero"} \cup WriteErrnos
     /\ (pc = "close" /\ pc' # "close") =>
          /\ pc' = "for_cond"
          /\ open' = {}
          /\ running' = running
    ]_vars

\* after a connection with a failed write, the next one was served in full
C9_Witness ==
  /\ conns = 2
  /\ nwerr = 1
  /\ nsig = 0
  /\ pc = "close"
  /\ served = "full"
  /\ wire = Policy
  /\ wire # << >>

\* C10 (as claimed): a signal delivered during a write does not cancel it:
\* unless write() returned 0 or a transport error, the connection is closed
\* only after the client has received the whole Policy Buffer.
C10_SignalKeepsWrite ==
  (pc = "close" /\ served \notin {"zero", "EPIPE"}) => wire = Policy

\* ---- the command line ------------------------------------------------
\* a step in which getopt() returns option o and the switch handles it
Parsing(o) ==
  /\ pc = "getopt"
  /\ argv # << >>
  /\ Head(argv).opt = o
  /\ argv' = Tail(argv)

\* a step of main that leaves the statement at pc (not the death of the
\* process by a signal)
Leaves(p) == pc = p /\ pc' \notin {p, "killed"}

\* the fork() call was made and succeeded: main is the parent, which
\* returns 0, or the child, which closes descriptors 0, 1 and 2
Forked == (pc' = "exit" /\ status' = 0) \/ (std_closed' /\ ~std_closed)

\* C11 (as claimed): the process forks exactly when -d is given: only -d
\* sets do_fork (-f, -p and -l leave it alone), and main forks exactly when
\* do_fork is set.
C11_ForkIffD ==
  [][/\ Parsing("d") => do_fork' = 1
     /\ (pc = "getopt" /\ ~Parsing("d")) => do_fork' = do_fork
     /\ (Leaves("fork") /\ status' # 1) => (Forked <=> do_fork = 1)
    ]_vars

\* getopt() returns -p with a value that is 0 as a port
ParsingBadPort == Parsing("p") /\ Head(argv).val % USHRT_RANGE = 0

\* main returns 1 before anything is loaded or created
EarlyExit1 ==
  /\ pc' = "exit"
  /\ status' = 1
  /\ listener' = "none"
  /\ UNCHANGED << polVars, naccept >>

\* C12 (as claimed): a missing -f, an invalid port and an unrecognized flag
\* each print the usage message on stderr and end main with status 1 before
\* the policy is loaded or a listener is created.
C12_UsageOnCliError ==
  [][((Leaves("check_policy_file") /\ ~policy_file)
        \/ ParsingBadPort \/ Parsing("?")) =>
       (EarlyExit1 /\ Len(err') > Len(err) /\ Last(err') = "Usage")]_vars

\* C12 (amended): a missing -f and an unrecognized flag print the usage
\* message; an invalid port prints only "Invalid port"; each ends main with
\* status 1 before the policy is loaded or a listener is created.
C12_CliErrorExit ==
  [][/\ ((Leaves("check_policy_file") /\ ~policy_file)
           \/ Parsing("?")) =>
          (EarlyExit1 /\ Len(err') > Len(err) /\ Last(err') = "Usage")
     /\ ParsingBadPort => (EarlyExit1 /\ err' = Append(err, "Invalid port"))
    ]_vars

\* main has returned 1 for -p 0 given after -f: only "Invalid port" was
\* printed, and neither the log nor the policy file was opened
C12_Witness ==
  /\ pc = "exit"
  /\ status = 1
  /\ policy_file
  /\ port = 0
  /\ err = << "Invalid port" >>
  /\ log_f = "NULL"
  /\ listener = "none"
  /\ f_off = 0

\* C13 (as claimed): a write() that fails or returns 0 appends one line to
\* the log before send_policy returns.
C13_WriteFailLogged ==
  [][(pc = "in_write" /\ pc' = "close" /\ served' \in WriteErrnos \cup {"zero"})
       => Len(log') = Len(log) + 1]_vars

\* C14 (as claimed): once a SIGINT or SIGTERM handler has run and the
\* Running Flag is false, no step sets the flag true again and no further
\* connection is accepted.
C14_FlagStaysFalse ==
  [][(~OnlyHup /\ running = 0) => (running' = 0 /\ conns' = conns)]_vars

\* ---- ordering ---------------------------------------------------------
\* the accepted-peer lines of the log
ClientLines == { i \in 1..Len(log) : log[i] = << "client", "" >> }

\* C15: the k-th accepted connection has the k-th accepted-peer line of the
\* log, appended before its first payload byte is written; it is the only
\* open connection while it is served and it is closed before accept() is
\* called again, so clients are served one after the other in acceptance
\* order.
C15_ConnOrder ==
  /\ pc = "log_client" => (Cardinality(ClientLines) = conns - 1 /\ wire = << >>)
  /\ pc \in {"send_policy", "in_write", "close"} =>
       (Cardinality(ClientLines) = conns /\ client = conns /\ open = {conns})
  /\ pc \in {"for_cond", "accept", "in_accept"} =>
       (Cardinality(ClientLines) = conns /\ open = {})

\* the second client is receiving the policy: both peers are logged and the
\* first connection is closed
C15_Witness ==
  /\ pc = "in_write"
  /\ conns = 2
  /\ sent > 0
  /\ Cardinality(ClientLines) = 2
  /\ open = {2}
  /\ delivered # {}

\* C16: fork() is called with the log open and its first line written, the
\* policy loaded and the listener listening; the parent returns 0 and has
\* never called accept(); the child closes descriptors 0, 1 and 2 and goes
\* on to the loop with the Policy Buffer and the listener unchanged, and no
\* accept() of a daemon is called with the descriptors still open.
C16_ForkOrder ==
  [][/\ (pc = "fork" /\ do_fork = 1 /\ Forked) =>
          /\ log_f # "NULL"
          /\ log # << >> /\ log[1] = << "pcfpd started", "" >>
          /\ Policy = FilePrefix
          /\ listener = "listening"
          /\ naccept = 0
          /\ UNCHANGED << log_f, polVars, listener, naccept >>
          /\ IF std_closed' THEN pc' = "for_init" ELSE status' = 0
     /\ naccept' # naccept => (do_fork = 1 => std_closed)
    ]_vars

\* the child is blocked in accept() on the listener with a policy loaded
C16_Witness ==
  /\ pc = "in_accept"
  /\ do_fork = 1
  /\ std_closed
  /\ listener = "listening"
  /\ policy_len > 0
  /\ Policy = FilePrefix

\* ---- bounds of the two loops ------------------------------------------
\* C18: policy_len stays within 0..MAX_POLICY_LEN; each read() of the load
\* loop is asked for MAX_POLICY_LEN - policy_len >= 1 bytes at offset
\* policy_len, which ends exactly at the end of the array; whatever the
\* reads return, no cell outside the array is ever stored.
C18_LoadBound ==
  /\ DOMAIN policy_data = 0..(MAX_POLICY_LEN - 1)
  /\ 0 <= policy_len /\ policy_len <= MAX_POLICY_LEN
  /\ (pc = "read" /\ policy_len < MAX_POLICY_LEN) =>
       (ReadWant >= 1 /\ policy_len + ReadWant = MAX_POLICY_LEN)

\* the load loop is about to read again with one free byte left and more
\* than one byte of the file unread
C18_Witness ==
  /\ pc = "read"
  /\ 0 < policy_len
  /\ policy_len = MAX_POLICY_LEN - 1
  /\ Len(file) - f_off > ReadWant

\* C19: write() is called only with data remaining; a write() that returns
\* a positive count adds it to sent, which never passes policy_len, and any
\* other result ends send_policy; so a call of send_policy makes at most
\* policy_len calls of write(), and none when the Policy Buffer is empty.
C19_SendTerminates ==
  /\ sent <= policy_len
  /\ nwrites <= policy_len
  /\ pc = "in_write" => (sent < policy_len /\ nwrites <= sent + 1)
  /\ pc = "send_policy" => nwrites <= sent
  /\ (pc = "close" /\ served = "full") => (sent = policy_len /\ nwrites <= sent)

\* a full policy was sent one byte per write()
C19_Witness ==
  /\ pc = "close"
  /\ served = "full"
  /\ policy_len = MAX_POLICY_LEN
  /\ nwrites = policy_len
  /\ wire = Policy

\* ---- shutdown ---------------------------------------------------------
\* a SIGINT or SIGTERM handler has run since the loop started
TermCaughtInLoop == running = 0 /\ pc \in (ServePcs \ {"for_init"})

\* C17 (as claimed): once a SIGINT or SIGTERM handler has run at any point
\* of the loop, the process eventually ends, whether or not another client
\* connects, provided every write() in progress returns.
C17_EventualShutdown == TermCaughtInLoop ~> (~Alive)
====
